---- MODULE Spec2Model ----
(***************************************************************************)
(* day05: the range-remapping Stage (Map), its entries (MapEntry) and the  *)
(* intervals (SeedRange) it is applied to.                                 *)
(*                                                                         *)
(* A behaviour is one life of a Stage: Map::new is called with a name and  *)
(* a list of entries (sorts, validates, returns Ok(map) or Err(Overlaps)); *)
(* on success the map is then queried any number of times with apply and   *)
(* apply_range.  apply_range is followed statement by statement through    *)
(* its scan loop.  Integers are mathematical integers: every value of the  *)
(* model is far inside i64, so no addition of the code overflows here.     *)
(*                                                                         *)
(* SpecPipeline follows part1 and part2 of lib.rs instead: part1 folds     *)
(* every seed through the collected maps and reports the least location;   *)
(* part2 takes the maps one by one and puts every interval it holds        *)
(* through apply_range, then reports the least start.                      *)
(***************************************************************************)
EXTENDS Integers, Sequences, FiniteSets, Bags, TLC

VARIABLES
    pc,               \* where the program is: "new", "failed", "ready", "applied",
                      \* "loop", "assert", "tail", "returned", "panic"
    name,             \* Map::new's `name` argument
    given,            \* Map::new's `entries` argument, as collected (consumed by new)
    map,              \* the Map that new returned, or NoMap
    err,              \* the Error that new returned, or NoError
    value,            \* Map::apply's argument
    result,           \* Map::apply's return value
    arg,              \* Map::apply_range's argument as the caller passed it
    range,            \* apply_range's `range` (the remaining range, mutated)
    out,              \* apply_range's `out`
    eidx,             \* apply_range's `eidx` (0-based, as in the code)
    original_length,  \* apply_range's `_original_length`
    seeds,            \* part1's `seeds.0`
    maps,             \* part1's `maps` (the collected Vec<Map>)
    ranges,           \* part2's `ranges`
    stage,            \* the Map that part2's loop last took from `maps`
    stages_taken,     \* how many Maps part2's loop has taken
    initial_length,   \* the sum of the lengths of part2's initial ranges
    unordered         \* part2's intervals as a fanned-out port holds them: a bag

pipeline == <<seeds, maps, ranges, stage, stages_taken, initial_length, unordered>>

vars == <<pc, name, given, map, err, value, result, arg, range, out, eidx, original_length,
          pipeline>>

---------------------------------------------------------------------------
(* Bounds of the model. *)

MaxEntries == 3       \* entries given to Map::new in SpecNew
MaxScanEntries == 2   \* entries given to Map::new in Spec (the map that is queried)
MaxStart == 1         \* source_start ranges over 0..MaxStart
MaxDest == 0          \* destination_start ranges over 0..MaxDest
MaxLen == 2           \* range_length ranges over -1..MaxLen
MaxRangeStart == 1    \* SeedRange.start ranges over -1..MaxRangeStart
MaxRangeLen == 3      \* SeedRange.length ranges over -1..MaxRangeLen
MaxValue == 3         \* apply's argument ranges over -1..MaxValue

Names == {"seed-to-soil"}

Entries ==
    [destination_start : 0..MaxDest,
     source_start      : 0..MaxStart,
     range_length      : (-1)..MaxLen]

SeedRanges == [start : (-1)..MaxRangeStart, length : (-1)..MaxRangeLen]

Values == (-1)..MaxValue

\* Every integer an entry or a range of the model reaches, and one beyond.
Points == (-1)..(MaxStart + MaxLen + MaxRangeStart + MaxRangeLen + 1)

---------------------------------------------------------------------------
(* MapEntry *)

source_end(e) == e.source_start + e.range_length

\* Mutant of MapEntry_contains: the end of the source range is included.
MapEntry_contains_inclusive(e, v) == e.source_start <= v /\ v <= source_end(e)

MapEntry_contains(e, v) == e.source_start <= v /\ v < source_end(e)

delta(e) == e.destination_start - e.source_start

MapEntry_apply(e, v) == IF MapEntry_contains(e, v) THEN v + delta(e) ELSE v

---------------------------------------------------------------------------
(* SeedRange *)

None == <<>>

\* Mutant of SeedRange_contains: the end of the range is included.
SeedRange_contains_inclusive(r, v) == r.start <= v /\ v <= r.start + r.length

SeedRange_contains(r, v) == r.start <= v /\ v < r.start + r.length

\* Mutant of split_at: the second part's length is counted from the start
\* of the range instead of from its end.
split_at_short(r, split_point) ==
    IF SeedRange_contains(r, split_point)
    THEN <<[start |-> r.start, length |-> split_point - r.start],
           [start |-> split_point, length |-> r.length - split_point]>>
    ELSE None

split_at(r, split_point) ==
    IF SeedRange_contains(r, split_point)
    THEN <<[start |-> r.start, length |-> split_point - r.start],
           [start |-> split_point, length |-> r.start + r.length - split_point]>>
    ELSE None

SeedRange_end(r) == r.start + r.length

SeedRange_add(r, d) == [start |-> r.start + d, length |-> r.length]

RECURSIVE SumLengths(_)
SumLengths(rs) == IF rs = <<>> THEN 0 ELSE rs[1].length + SumLengths(Tail(rs))

---------------------------------------------------------------------------
(* Map::validate and Map::new *)

NoMap == [name |-> "", entries |-> <<>>, some |-> FALSE]
NoError == [tag |-> "none"]
\* Mutant of Overlaps: the two outputs are stored the wrong way round.
Overlaps_swapped(n, input, output1, output2) ==
    [tag |-> "Overlaps", name |-> n, input |-> input, output1 |-> output2, output2 |-> output1]

Overlaps(n, input, output1, output2) ==
    [tag |-> "Overlaps", name |-> n, input |-> input, output1 |-> output1, output2 |-> output2]

\* Mutant of InsertByKey: an entry whose key is already present is dropped
\* (sort followed by dedup_by_key).
RECURSIVE InsertByKey_dedup(_, _)
InsertByKey_dedup(sorted, e) ==
    IF sorted = <<>> THEN <<e>>
    ELSE IF sorted[Len(sorted)].source_start = e.source_start
         THEN sorted
         ELSE IF sorted[Len(sorted)].source_start < e.source_start
              THEN Append(sorted, e)
              ELSE Append(InsertByKey_dedup(SubSeq(sorted, 1, Len(sorted) - 1), e),
                          sorted[Len(sorted)])

\* Vec::sort_by_key is a stable sort: equal keys keep their relative order.
RECURSIVE InsertByKey(_, _)
InsertByKey(sorted, e) ==
    IF sorted = <<>> THEN <<e>>
    ELSE IF sorted[Len(sorted)].source_start <= e.source_start
         THEN Append(sorted, e)
         ELSE Append(InsertByKey(SubSeq(sorted, 1, Len(sorted) - 1), e), sorted[Len(sorted)])

\* Mutant of sort_by_key: the entries are left in the caller's order.
sort_by_key_unsorted(es) == es

RECURSIVE sort_by_key(_)
sort_by_key(es) ==
    IF es = <<>> THEN <<>>
    ELSE InsertByKey(sort_by_key(SubSeq(es, 1, Len(es) - 1)), es[Len(es)])

\* Mutant of windows: an overlapping pair that agrees ends the scan with Ok
\* (a `break` where the code has `continue`).
RECURSIVE windows_break(_, _, _)
windows_break(n, es, i) ==
    IF i >= Len(es) THEN NoError
    ELSE LET left == es[i]
             right == es[i + 1]
         IN IF source_end(left) > right.source_start
            THEN LET input == right.source_start
                     output1 == MapEntry_apply(left, input)
                     output2 == MapEntry_apply(right, input)
                 IN IF output1 = output2
                    THEN NoError
                    ELSE Overlaps(n, input, output1, output2)
            ELSE windows_break(n, es, i + 1)

\* The loop over entries.windows(2), from the window whose left entry is es[i].
RECURSIVE windows(_, _, _)
windows(n, es, i) ==
    IF i >= Len(es) THEN NoError
    ELSE LET left == es[i]
             right == es[i + 1]
         IN IF source_end(left) > right.source_start
            THEN LET input == right.source_start
                     output1 == MapEntry_apply(left, input)
                     output2 == MapEntry_apply(right, input)
                 IN IF output1 = output2
                    THEN windows(n, es, i + 1)
                    ELSE Overlaps(n, input, output1, output2)
            ELSE windows(n, es, i + 1)

validate(n, es) == windows(n, sort_by_key(es), 1)

\* Map::new: the pair <<map, err>> it leaves the caller with.
Map_new(n, es) ==
    LET e == validate(n, es)
    IN IF e = NoError
       THEN <<[name |-> n, entries |-> sort_by_key(es), some |-> TRUE], NoError>>
       ELSE <<NoMap, e>>

---------------------------------------------------------------------------
(* Map::apply *)

RECURSIVE scan_apply(_, _, _)
scan_apply(es, i, v) ==
    IF i > Len(es) THEN v
    ELSE IF MapEntry_contains(es[i], v) THEN MapEntry_apply(es[i], v)
         ELSE scan_apply(es, i + 1, v)

\* Mutant of Map_apply: the scan starts at the second entry.
Map_apply_from_second(m, v) == scan_apply(m.entries, 2, v)

Map_apply(m, v) == scan_apply(m.entries, 1, v)

---------------------------------------------------------------------------
(* The state machine *)

NoRange == [start |-> 0, length |-> 0]

\* No part1 or part2 is running: their variables hold nothing.
NoPipeline ==
    /\ seeds = <<>>
    /\ maps = <<>>
    /\ ranges = <<>>
    /\ stage = NoMap
    /\ stages_taken = 0
    /\ initial_length = 0
    /\ unordered = EmptyBag

InitWith(n) ==
    /\ pc = "new"
    /\ name \in Names
    /\ \E k \in 0..n : given \in [1..k -> Entries]
    /\ map = NoMap
    /\ err = NoError
    /\ value = 0
    /\ result = 0
    /\ arg = NoRange
    /\ range = NoRange
    /\ out = <<>>
    /\ eidx = 0
    /\ original_length = 0
    /\ NoPipeline

Init == InitWith(MaxScanEntries)

InitNew == InitWith(MaxEntries)

frame == <<arg, range, out, eidx, original_length>>

New ==
    /\ pc = "new"
    /\ LET r == Map_new(name, given)
       IN /\ map' = r[1]
          /\ err' = r[2]
          /\ pc' = IF r[2] = NoError THEN "ready" ELSE "failed"
    /\ UNCHANGED <<pipeline, name, given, value, result, frame>>

\* Map::apply, the whole call.
Apply ==
    /\ pc = "ready"
    /\ \E v \in Values :
          /\ value' = v
          /\ result' = Map_apply(map, v)
    /\ pc' = "applied"
    /\ UNCHANGED <<pipeline, name, given, map, err, frame>>

\* apply_range, lines 76-86: entry of the function.
ApplyRange ==
    /\ pc = "ready"
    /\ \E r \in SeedRanges :
          /\ arg' = r
          /\ range' = r
          /\ original_length' = r.length
    /\ out' = <<>>
    /\ eidx' = 0
    /\ pc' = "loop"
    /\ UNCHANGED <<pipeline, name, given, map, err, value, result>>

entry == map.entries[eidx + 1]

\* lines 89-91: entries.get(eidx) is None.
OutOfBounds ==
    /\ pc = "loop"
    /\ eidx >= Len(map.entries)
    /\ pc' = "tail"
    /\ UNCHANGED <<pipeline, name, given, map, err, value, result, frame>>

\* Mutant of FastForward: the entry that lies before the range is dropped
\* from the map instead of stepped over.
FastForward_drain ==
    /\ pc = "loop"
    /\ eidx < Len(map.entries)
    /\ source_end(map.entries[eidx + 1]) <= range.start
    /\ map' = [map EXCEPT !.entries =
                   SubSeq(map.entries, 1, eidx) \o SubSeq(map.entries, eidx + 2, Len(map.entries))]
    /\ UNCHANGED <<pipeline, pc, name, given, err, value, result, frame>>

\* lines 94-97: the entry lies wholly before the remaining range.
FastForward ==
    /\ pc = "loop"
    /\ eidx < Len(map.entries)
    /\ source_end(entry) <= range.start
    /\ eidx' = eidx + 1
    /\ UNCHANGED <<pipeline, pc, name, given, map, err, value, result, arg, range, out, original_length>>

\* Mutant of Overshot: the scan stops as soon as an entry starts at or after
\* the start of the remaining range.
Overshot_early ==
    /\ pc = "loop"
    /\ eidx < Len(map.entries)
    /\ ~(source_end(map.entries[eidx + 1]) <= range.start)
    /\ map.entries[eidx + 1].source_start >= range.start
    /\ pc' = "tail"
    /\ UNCHANGED <<pipeline, name, given, map, err, value, result, frame>>

\* lines 100-102: the entry lies wholly after the remaining range.
Overshot ==
    /\ pc = "loop"
    /\ eidx < Len(map.entries)
    /\ ~(source_end(entry) <= range.start)
    /\ entry.source_start >= SeedRange_end(range)
    /\ pc' = "tail"
    /\ UNCHANGED <<pipeline, name, given, map, err, value, result, frame>>

\* Mutant of LeftSplit: the range is also split when the entry starts
\* exactly where the range starts.
LeftSplit_eager ==
    /\ pc = "loop"
    /\ eidx < Len(map.entries)
    /\ ~(source_end(map.entries[eidx + 1]) <= range.start)
    /\ ~(map.entries[eidx + 1].source_start >= SeedRange_end(range))
    /\ map.entries[eidx + 1].source_start >= range.start
    /\ LET s == split_at(range, map.entries[eidx + 1].source_start)
       IN IF s = None
          THEN pc' = "panic" /\ UNCHANGED <<range, out>>
          ELSE pc' = "assert" /\ range' = s[2] /\ out' = Append(out, s[1])
    /\ UNCHANGED <<pipeline, name, given, map, err, value, result, arg, eidx, original_length>>

\* Mutant of LeftSplit: the two parts of the split are taken the wrong way
\* round.
LeftSplit_swapped ==
    /\ pc = "loop"
    /\ eidx < Len(map.entries)
    /\ ~(source_end(map.entries[eidx + 1]) <= range.start)
    /\ ~(map.entries[eidx + 1].source_start >= SeedRange_end(range))
    /\ map.entries[eidx + 1].source_start > range.start
    /\ LET s == split_at(range, map.entries[eidx + 1].source_start)
       IN IF s = None
          THEN pc' = "panic" /\ UNCHANGED <<range, out>>
          ELSE pc' = "assert" /\ range' = s[1] /\ out' = Append(out, s[2])
    /\ UNCHANGED <<pipeline, name, given, map, err, value, result, arg, eidx, original_length>>

\* lines 104-109: the unmodified segment before the entry.
LeftSplit ==
    /\ pc = "loop"
    /\ eidx < Len(map.entries)
    /\ ~(source_end(entry) <= range.start)
    /\ ~(entry.source_start >= SeedRange_end(range))
    /\ entry.source_start > range.start
    /\ LET s == split_at(range, entry.source_start)
       IN IF s = None
          THEN pc' = "panic" /\ UNCHANGED <<range, out>>
          ELSE pc' = "assert" /\ range' = s[2] /\ out' = Append(out, s[1])
    /\ UNCHANGED <<pipeline, name, given, map, err, value, result, arg, eidx, original_length>>

\* line 104 with the condition false.
NoLeftSplit ==
    /\ pc = "loop"
    /\ eidx < Len(map.entries)
    /\ ~(source_end(entry) <= range.start)
    /\ ~(entry.source_start >= SeedRange_end(range))
    /\ ~(entry.source_start > range.start)
    /\ pc' = "assert"
    /\ UNCHANGED <<pipeline, name, given, map, err, value, result, frame>>

\* Mutant of Snip: the mapped segment is snipped out but the scan stays at
\* the same entry.
Snip_stay ==
    /\ pc = "assert"
    /\ source_end(map.entries[eidx + 1]) < SeedRange_end(range)
    /\ LET s == split_at(range, source_end(map.entries[eidx + 1]))
       IN IF s = None
          THEN pc' = "panic" /\ UNCHANGED <<range, out>>
          ELSE /\ pc' = "loop"
               /\ range' = s[2]
               /\ out' = Append(out, SeedRange_add(s[1], delta(map.entries[eidx + 1])))
    /\ UNCHANGED <<pipeline, name, given, map, err, value, result, arg, eidx, original_length>>

\* Mutant of Snip: the mapped segment is pushed but not taken off the
\* remaining range.
Snip_unsplit ==
    /\ pc = "assert"
    /\ source_end(map.entries[eidx + 1]) < SeedRange_end(range)
    /\ LET s == split_at(range, source_end(map.entries[eidx + 1]))
       IN IF s = None
          THEN pc' = "panic" /\ UNCHANGED <<out, eidx>>
          ELSE /\ pc' = "loop"
               /\ out' = Append(out, SeedRange_add(s[1], delta(map.entries[eidx + 1])))
               /\ eidx' = eidx + 1
    /\ UNCHANGED <<pipeline, name, given, map, err, value, result, arg, range, original_length>>

\* lines 113-117: snip out the mapped segment and go on with the next entry.
Snip ==
    /\ pc = "assert"
    /\ source_end(entry) < SeedRange_end(range)
    /\ LET s == split_at(range, source_end(entry))
       IN IF s = None
          THEN pc' = "panic" /\ UNCHANGED <<range, out, eidx>>
          ELSE /\ pc' = "loop"
               /\ range' = s[2]
               /\ out' = Append(out, SeedRange_add(s[1], delta(entry)))
               /\ eidx' = eidx + 1
    /\ UNCHANGED <<pipeline, name, given, map, err, value, result, arg, original_length>>

\* Mutant of Cover: the remainder is pushed without the entry's delta.
Cover_unshifted ==
    /\ pc = "assert"
    /\ ~(source_end(map.entries[eidx + 1]) < SeedRange_end(range))
    /\ out' = Append(out, range)
    /\ range' = [range EXCEPT !.length = 0]
    /\ pc' = "tail"
    /\ UNCHANGED <<pipeline, name, given, map, err, value, result, arg, eidx, original_length>>

\* lines 118-125: the entry covers the rest of the range.
Cover ==
    /\ pc = "assert"
    /\ ~(source_end(entry) < SeedRange_end(range))
    /\ out' = Append(out, SeedRange_add(range, delta(entry)))
    /\ range' = [range EXCEPT !.length = 0]
    /\ pc' = "tail"
    /\ UNCHANGED <<pipeline, name, given, map, err, value, result, arg, eidx, original_length>>

pushed_tail == IF range.length > 0 THEN Append(out, range) ELSE out

\* lines 128-138: push what is left and return `out`.  A build without
\* debug assertions returns whatever the sum of the lengths is.
Return ==
    /\ pc = "tail"
    /\ out' = pushed_tail
    /\ pc' = "returned"
    /\ UNCHANGED <<pipeline, name, given, map, err, value, result, arg, range, eidx, original_length>>

\* lines 133-136 in a build with debug assertions: debug_assert_eq! fails.
AssertEqFails ==
    /\ pc = "tail"
    /\ SumLengths(pushed_tail) # original_length
    /\ out' = pushed_tail
    /\ pc' = "panic"
    /\ UNCHANGED <<pipeline, name, given, map, err, value, result, arg, range, eidx, original_length>>

\* The caller takes the value a call returned (lib.rs lines 24 and 47) and
\* the call's frame is gone; the map is ready for the next call.
Consume ==
    /\ pc \in {"applied", "returned"}
    /\ pc' = "ready"
    /\ value' = 0 /\ result' = 0
    /\ arg' = NoRange /\ range' = NoRange /\ out' = <<>> /\ eidx' = 0
    /\ original_length' = 0
    /\ UNCHANGED <<pipeline, name, given, map, err>>

Next ==
    \/ New
    \/ Apply
    \/ ApplyRange
    \/ OutOfBounds
    \/ FastForward
    \/ Overshot
    \/ LeftSplit
    \/ NoLeftSplit
    \/ Snip
    \/ Cover
    \/ Return
    \/ AssertEqFails
    \/ Consume

Spec == Init /\ [][Next]_vars

SpecNew == InitNew /\ [][New]_vars

\* A single MapEntry (given[1]) and a value: the calls of MapEntry::contains
\* and MapEntry::apply on their own.
InitEntry ==
    /\ pc = "entry"
    /\ name \in Names
    /\ given \in [1..1 -> Entries]
    /\ map = NoMap
    /\ err = NoError
    /\ value \in Points
    /\ result = 0
    /\ arg = NoRange
    /\ range = NoRange
    /\ out = <<>>
    /\ eidx = 0
    /\ original_length = 0
    /\ NoPipeline

EntryContains ==
    /\ pc = "entry"
    /\ result' = MapEntry_contains(given[1], value)
    /\ pc' = "entry_contains"
    /\ UNCHANGED <<pipeline, name, given, map, err, value, frame>>

EntryApply ==
    /\ pc = "entry"
    /\ result' = MapEntry_apply(given[1], value)
    /\ pc' = "entry_applied"
    /\ UNCHANGED <<pipeline, name, given, map, err, value, frame>>

NextEntry == EntryContains \/ EntryApply

SpecEntry == InitEntry /\ [][NextEntry]_vars

\* A single SeedRange (arg) and a point (value): the calls of
\* SeedRange::contains and SeedRange::split_at on their own.  `out` takes
\* what split_at returns: the pair, or None.
InitSplit ==
    /\ pc = "range"
    /\ name \in Names
    /\ given = <<>>
    /\ map = NoMap
    /\ err = NoError
    /\ value \in Points
    /\ result = 0
    /\ arg \in SeedRanges
    /\ range = NoRange
    /\ out = <<>>
    /\ eidx = 0
    /\ original_length = 0
    /\ NoPipeline

RangeContains ==
    /\ pc = "range"
    /\ result' = SeedRange_contains(arg, value)
    /\ pc' = "range_contains"
    /\ UNCHANGED <<pipeline, name, given, map, err, value, frame>>

SplitAt ==
    /\ pc = "range"
    /\ out' = split_at(arg, value)
    /\ pc' = "range_split"
    /\ UNCHANGED <<pipeline, name, given, map, err, value, result, arg, range, eidx,
                   original_length>>

NextSplit == RangeContains \/ SplitAt

SpecSplit == InitSplit /\ [][NextSplit]_vars

---------------------------------------------------------------------------
(* Map::apply_range as one call, for the callers in lib.rs *)

\* The scan loop of apply_range, lines 88-126, from entry index i with the
\* remaining range r and the fragments o pushed so far.  The value is
\* <<range, out>> as the loop leaves them, or None when an unwrap panics.
RECURSIVE scan_apply_range(_, _, _, _)
scan_apply_range(es, i, r, o) ==
    IF i >= Len(es) THEN <<r, o>>
    ELSE LET e == es[i + 1]
         IN IF source_end(e) <= r.start THEN scan_apply_range(es, i + 1, r, o)
            ELSE IF e.source_start >= SeedRange_end(r) THEN <<r, o>>
            ELSE LET left == IF e.source_start > r.start
                             THEN LET s == split_at(r, e.source_start)
                                  IN IF s = None THEN None
                                     ELSE <<s[2], Append(o, s[1])>>
                             ELSE <<r, o>>
                 IN IF left = None THEN None
                    ELSE IF source_end(e) < SeedRange_end(left[1])
                    THEN LET s == split_at(left[1], source_end(e))
                         IN IF s = None THEN None
                            ELSE scan_apply_range(es, i + 1, s[2],
                                     Append(left[2], SeedRange_add(s[1], delta(e))))
                    ELSE <<[left[1] EXCEPT !.length = 0],
                           Append(left[2], SeedRange_add(left[1], delta(e)))>>

\* Map::apply_range(range), lines 76-139.  `panic` says that an unwrap
\* panicked; `asserted` is the condition of the closing debug_assert_eq!,
\* which only a build with debug assertions evaluates.
Map_apply_range(m, r) ==
    LET scanned == scan_apply_range(m.entries, 0, r, <<>>)
    IN IF scanned = None
       THEN [panic |-> TRUE, asserted |-> TRUE, out |-> <<>>]
       ELSE LET o == IF scanned[1].length > 0
                     THEN Append(scanned[2], scanned[1])
                     ELSE scanned[2]
            IN [panic |-> FALSE, asserted |-> SumLengths(o) = r.length, out |-> o]

---------------------------------------------------------------------------
(* part1 and part2 *)

MaxSeeds == 2         \* part1 is given at most MaxSeeds seeds
MaxSeed == 2          \* each seed ranges over 0..MaxSeed
MaxStages == 2        \* part1 and part2 are given at most MaxStages maps
MaxIntervals == 2     \* part2 is given at most MaxIntervals seed ranges
MaxPipeStart == 1     \* in part1 and part2, starts range over 0..MaxPipeStart
MaxPipeLen == 1       \* and every entry has the range_length MaxPipeLen

\* The entries of the maps part1 and part2 are given: a map holds one of
\* these, or no entry at all.
PipeEntries ==
    [destination_start : 0..MaxPipeStart, source_start : 0..MaxPipeStart,
     range_length : {MaxPipeLen}]

\* The maps `parse_two_phase` yields: each came out of Map::new.
Stages ==
    {Map_new(n, <<>>)[1] : n \in Names}
        \cup {Map_new(n, <<e>>)[1] : n \in Names, e \in PipeEntries}

\* The seed ranges `parse_two_phase` yields.
PipeRanges == [start : 0..MaxPipeStart, length : (-1)..(MaxPipeLen + 1)]

NoSolution == [tag |-> "NoSolution"]

\* Iterator::min: None for no items, else Some(the least).
Iterator_first(s) == IF s = <<>> THEN None ELSE <<s[1]>>

Iterator_min(s) ==
    IF s = <<>> THEN None
    ELSE <<CHOOSE x \in {s[i] : i \in 1..Len(s)} :
               \A y \in {s[i] : i \in 1..Len(s)} : x <= y>>

\* Option::ok_or(e), followed by `?`: the function goes on with the value
\* or returns Err(e).
ok_or_default(opt, e) ==
    IF opt = None THEN [ok |-> TRUE, value |-> 0, err |-> NoError]
    ELSE [ok |-> TRUE, value |-> opt[1], err |-> NoError]

ok_or(opt, e) ==
    IF opt = None THEN [ok |-> FALSE, value |-> 0, err |-> e]
    ELSE [ok |-> TRUE, value |-> opt[1], err |-> NoError]

\* part1's closure, lines 22-27: `for map in &maps { value = map.apply(value) }`.
RECURSIVE fold_maps_reversed(_, _)
fold_maps_reversed(v, ms) ==
    IF ms = <<>> THEN v
    ELSE fold_maps_reversed(Map_apply(ms[Len(ms)], v), SubSeq(ms, 1, Len(ms) - 1))

RECURSIVE fold_maps(_, _)
fold_maps(v, ms) ==
    IF ms = <<>> THEN v ELSE fold_maps(Map_apply(ms[1], v), Tail(ms))

\* lines 18-27: the seeds, each mapped through the closure.
locations(ss, ms) == [i \in 1..Len(ss) |-> fold_maps(ss[i], ms)]

\* part2's inner loop, lines 44-48: `next_ranges.extend(map.apply_range(range))`
\* for each range in turn.  `panic` says that a call panicked in an unwrap,
\* `asserted` that the debug_assert_eq! of every call held.
RECURSIVE extend_all_front(_, _, _)
extend_all_front(m, rs, next_ranges) ==
    IF rs = <<>> THEN [panic |-> FALSE, asserted |-> TRUE, out |-> next_ranges]
    ELSE LET call == Map_apply_range(m, rs[1])
         IN IF call.panic THEN call
            ELSE LET rest == extend_all_front(m, Tail(rs), call.out \o next_ranges)
                 IN [rest EXCEPT !.asserted = call.asserted /\ rest.asserted]

RECURSIVE extend_all(_, _, _)
extend_all(m, rs, next_ranges) ==
    IF rs = <<>> THEN [panic |-> FALSE, asserted |-> TRUE, out |-> next_ranges]
    ELSE LET call == Map_apply_range(m, rs[1])
         IN IF call.panic THEN call
            ELSE LET rest == extend_all(m, Tail(rs), next_ranges \o call.out)
                 IN [rest EXCEPT !.asserted = call.asserted /\ rest.asserted]

\* lines 53-55: `ranges.iter().map(|range| range.start)`.
starts(rs) == [i \in 1..Len(rs) |-> rs[i].start]

RECURSIVE SeqToBag(_)
SeqToBag(s) == IF s = <<>> THEN EmptyBag ELSE SetToBag({s[1]}) (+) SeqToBag(Tail(s))

\* A fanned-out stage: each interval of the bag, taken in any order, is put
\* through apply_range and its fragments are put into the next bag.
RECURSIVE fan_out(_, _)
fan_out(m, b) ==
    IF BagToSet(b) = {} THEN EmptyBag
    ELSE LET r == CHOOSE x \in BagToSet(b) : TRUE
         IN SeqToBag(Map_apply_range(m, r).out) (+) fan_out(m, b (-) SetToBag({r}))

\* The stage's variables while part1 or part2 runs.
NoStage ==
    /\ name \in Names
    /\ given = <<>>
    /\ map = NoMap
    /\ err = NoError
    /\ value = 0
    /\ result = 0
    /\ arg = NoRange
    /\ range = NoRange
    /\ out = <<>>
    /\ eidx = 0
    /\ original_length = 0

\* part1 after line 15: the seeds are parsed and the maps collected.
InitPart1 ==
    /\ pc = "part1"
    /\ NoStage
    /\ \E k \in 0..MaxSeeds : seeds \in [1..k -> 0..MaxSeed]
    /\ \E k \in 0..MaxStages : maps \in [1..k -> Stages]
    /\ ranges = <<>>
    /\ stage = NoMap
    /\ stages_taken = 0
    /\ initial_length = 0
    /\ unordered = EmptyBag

\* part2 after line 37: the seed ranges are parsed, no map is taken yet.
InitPart2 ==
    /\ pc = "part2"
    /\ NoStage
    /\ seeds = <<>>
    /\ maps = <<>>
    /\ \E k \in 0..MaxIntervals : ranges \in [1..k -> PipeRanges]
    /\ stage = NoMap
    /\ stages_taken = 0
    /\ initial_length = SumLengths(ranges)
    /\ unordered = SeqToBag(ranges)

InitPipeline == InitPart1 \/ InitPart2

\* part1, lines 18-32.
Part1 ==
    /\ pc = "part1"
    /\ LET lowest_location == ok_or(Iterator_min(locations(seeds, maps)), NoSolution)
       IN IF lowest_location.ok
          THEN pc' = "part1_ok" /\ result' = lowest_location.value /\ err' = err
          ELSE pc' = "part1_err" /\ err' = lowest_location.err /\ result' = result
    /\ UNCHANGED <<pipeline, name, given, map, value, frame>>

\* part2, lines 43-51: one turn of `for map in maps`, every apply_range
\* returning.
Part2Stage ==
    /\ pc = "part2"
    /\ stages_taken < MaxStages
    /\ \E m \in Stages :
          LET next_ranges == extend_all(m, ranges, <<>>)
          IN /\ ~next_ranges.panic
             /\ stage' = m
             /\ ranges' = next_ranges.out
             /\ unordered' = fan_out(m, unordered)
    /\ stages_taken' = stages_taken + 1
    /\ UNCHANGED <<pc, name, given, map, err, value, result, frame,
                   seeds, maps, initial_length>>

\* line 47 panicking: an unwrap inside apply_range, or, in a build with
\* debug assertions, its closing debug_assert_eq!.
Part2Panic ==
    /\ pc = "part2"
    /\ stages_taken < MaxStages
    /\ \E m \in Stages :
          LET next_ranges == extend_all(m, ranges, <<>>)
          IN /\ next_ranges.panic \/ ~next_ranges.asserted
             /\ stage' = m
    /\ pc' = "panic"
    /\ UNCHANGED <<name, given, map, err, value, result, frame,
                   seeds, maps, ranges, stages_taken, initial_length, unordered>>

\* part2, lines 53-59: `maps` is exhausted.
Part2Reduce ==
    /\ pc = "part2"
    /\ LET lowest_location == ok_or(Iterator_min(starts(ranges)), NoSolution)
       IN IF lowest_location.ok
          THEN pc' = "part2_ok" /\ result' = lowest_location.value /\ err' = err
          ELSE pc' = "part2_err" /\ err' = lowest_location.err /\ result' = result
    /\ UNCHANGED <<pipeline, name, given, map, value, frame>>

NextPipeline == Part1 \/ Part2Stage \/ Part2Panic \/ Part2Reduce

SpecPipeline == InitPipeline /\ [][NextPipeline]_vars

----------------------------------------------------------------------------
\* part2 run on maps known from the start, next to the values its seed
\* ranges contain.

\* The entries of these maps: an entry may have the length 0, which
\* MapEntry and Map::new accept.
AgreeEntries ==
    [destination_start : 0..MaxPipeStart, source_start : 0..(MaxPipeStart + 1),
     range_length : 0..MaxPipeLen]

AgreeStages ==
    {Map_new(n, <<>>)[1] : n \in Names}
        \cup {Map_new(n, <<e>>)[1] : n \in Names, e \in AgreeEntries}

\* Seed ranges of positive length.
AgreeRanges == [start : 0..MaxPipeStart, length : 1..(MaxPipeLen + 1)]

\* The values a seed range contains, from v on, in ascending order.
RECURSIVE values_from(_, _)
values_from(r, v) ==
    IF SeedRange_contains(r, v) THEN <<v>> \o values_from(r, v + 1) ELSE <<>>

\* The values the seed ranges contain, range after range.
RECURSIVE contained(_)
contained(rs) ==
    IF rs = <<>> THEN <<>>
    ELSE values_from(rs[1], rs[1].start) \o contained(Tail(rs))

\* part2 after line 37, the maps of the input being `maps`; `seeds` holds
\* the values the seed ranges contain.
InitAgree ==
    /\ pc = "part2_maps"
    /\ NoStage
    /\ \E k \in 0..MaxStages : maps \in [1..k -> AgreeStages]
    /\ \E k \in 1..MaxIntervals : ranges \in [1..k -> AgreeRanges]
    /\ seeds = contained(ranges)
    /\ stage = NoMap
    /\ stages_taken = 0
    /\ initial_length = SumLengths(ranges)
    /\ unordered = EmptyBag

\* part2, lines 43-51: one turn of `for map in maps`; an unwrap inside
\* apply_range, or a failing debug_assert_eq!, ends part2 in a panic.
Part2Map ==
    /\ pc = "part2_maps"
    /\ stages_taken < Len(maps)
    /\ LET next_ranges == extend_all(maps[stages_taken + 1], ranges, <<>>)
       IN IF next_ranges.panic \/ ~next_ranges.asserted
          THEN pc' = "panic" /\ UNCHANGED <<ranges, stages_taken>>
          ELSE /\ pc' = pc
               /\ ranges' = next_ranges.out
               /\ stages_taken' = stages_taken + 1
    /\ stage' = maps[stages_taken + 1]
    /\ UNCHANGED <<name, given, map, err, value, result, frame,
                   seeds, maps, initial_length, unordered>>

\* part2, lines 53-59, once every map is taken.
Part2Min ==
    /\ pc = "part2_maps"
    /\ stages_taken = Len(maps)
    /\ LET lowest_location == ok_or(Iterator_min(starts(ranges)), NoSolution)
       IN IF lowest_location.ok
          THEN pc' = "part2_ok" /\ result' = lowest_location.value /\ err' = err
          ELSE pc' = "part2_err" /\ err' = lowest_location.err /\ result' = result
    /\ UNCHANGED <<pipeline, name, given, map, value, frame>>

NextAgree == Part2Map \/ Part2Min

SpecAgree == InitAgree /\ [][NextAgree]_vars

---------------------------------------------------------------------------
(* Claims about Map::apply_range and Map::apply *)

\* The value that the fragments `frags`, laid left to right by their lengths,
\* hold at offset k (as a one-element tuple), or <<>> when they do not reach k.
RECURSIVE ValueAt(_, _)
ValueAt(frags, k) ==
    IF frags = <<>> THEN <<>>
    ELSE IF k < frags[1].length THEN <<frags[1].start + k>>
         ELSE ValueAt(Tail(frags), k - frags[1].length)

\* C1 (as claimed): whenever apply_range returns, the lengths of the returned
\* fragments sum to the length of the interval it was called with.
C1_Conservation == pc = "returned" => SumLengths(out) = arg.length

\* C2 (as claimed): whenever apply_range returns, the returned list holds at
\* least one fragment.
C2_NonEmpty == pc = "returned" => Len(out) >= 1

\* C3: whenever apply_range(R) returns, for every integer v in R the returned
\* fragments, laid against R left to right by their lengths, hold exactly
\* Map::apply(v) at v's offset in R; and when R is not of negative length the
\* fragments end where R ends, so they cover the values apply(v), v in R, and
\* no others.
C3_ScalarRangeConsistency ==
    pc = "returned" =>
        /\ \A v \in arg.start..(arg.start + arg.length - 1) :
              ValueAt(out, v - arg.start) = <<Map_apply(map, v)>>
        /\ arg.length >= 0 =>
              /\ SumLengths(out) = arg.length
              /\ \A i \in 1..Len(out) : out[i].length >= 0

\* C3's case: a call that returned three or more fragments over two
\* overlapping entries, one of them moving a value of R.
C3_Witness ==
    /\ pc = "returned"
    /\ Len(out) >= 3
    /\ Len(map.entries) = 2
    /\ source_end(map.entries[1]) > map.entries[2].source_start
    /\ \E v \in arg.start..(arg.start + arg.length - 1) : Map_apply(map, v) # v

\* C4 (as claimed): in a Stage that Map::new returned, no two entries disagree
\* about the output of a value that lies in both their source ranges.
C4_NoTwoEntriesDisagree ==
    pc = "ready" =>
        \A i, j \in 1..Len(map.entries) : \A v \in Points :
            (MapEntry_contains(map.entries[i], v) /\ MapEntry_contains(map.entries[j], v))
                => MapEntry_apply(map.entries[i], v) = MapEntry_apply(map.entries[j], v)

---------------------------------------------------------------------------
(* Claims about Map::new and Map::validate *)

Perms(s) ==
    LET n == Len(s)
        bijections == {f \in [1..n -> 1..n] : \A a, b \in 1..n : a # b => f[a] # f[b]}
    IN {[i \in 1..n |-> s[f[i]]] : f \in bijections}

DistinctKeys(s) ==
    \A i, j \in 1..Len(s) : i # j => s[i].source_start # s[j].source_start

\* C5 (as claimed): Map::new leaves the caller with the same map, or the same
\* error, whichever permutation of the given entries it is called with.
C5_AnyPermutation ==
    pc \in {"ready", "failed"} =>
        \A p \in Perms(given) : Map_new(name, p) = <<map, err>>

\* C5 (amended): when the given entries have pairwise distinct source_start,
\* Map::new leaves the caller with the same map (same stored order), or the
\* same error, whichever permutation of them it is called with.
C5_DistinctKeysPermutation ==
    (pc \in {"ready", "failed"} /\ DistinctKeys(given)) =>
        \A p \in Perms(given) : Map_new(name, p) = <<map, err>>

\* C5's case: entries with distinct keys, given out of order, were sorted.
C5_Witness ==
    /\ pc = "ready"
    /\ Len(given) >= 2
    /\ DistinctKeys(given)
    /\ map.entries # given

\* The adjacent pair (s[i], s[i+1]) overlaps and the two entries disagree
\* about the input s[i+1].source_start.
Offending(s, i) ==
    /\ s[i].source_start + s[i].range_length > s[i + 1].source_start
    /\ MapEntry_apply(s[i], s[i + 1].source_start)
           # MapEntry_apply(s[i + 1], s[i + 1].source_start)

\* C6: Map::new fails with Overlaps exactly when, in the sorted entries, some
\* adjacent pair overlaps and disagrees at the right entry's source_start;
\* otherwise it returns a map.
C6_OverlapsIff ==
    pc \in {"ready", "failed"} =>
        LET s == sort_by_key(given)
            bad == \E i \in 1..(Len(s) - 1) : Offending(s, i)
        IN /\ (pc = "failed") <=> bad
           /\ (pc = "failed") <=> (err.tag = "Overlaps")
           /\ (pc = "ready") <=> map.some

\* C6's case: the first adjacent pair overlaps and agrees, the scan goes on
\* and fails at the second pair.
C6_Witness ==
    /\ pc = "failed"
    /\ Len(given) = 3
    /\ LET s == sort_by_key(given)
       IN /\ source_end(s[1]) > s[2].source_start
          /\ ~Offending(s, 1)
          /\ Offending(s, 2)

\* C7: when Map::new fails no map is produced, and the error carries the
\* stage's name, the source_start of the right entry of the first offending
\* adjacent pair, and the two different outputs of the left and the right
\* entry for that input, in this order.
C7_ErrorCarries ==
    pc = "failed" =>
        LET s == sort_by_key(given)
            first == CHOOSE i \in 1..(Len(s) - 1) :
                        Offending(s, i) /\ \A j \in 1..(i - 1) : ~Offending(s, j)
        IN /\ ~map.some
           /\ err.tag = "Overlaps"
           /\ err.name = name
           /\ \E i \in 1..(Len(s) - 1) : Offending(s, i)
           /\ err.input = s[first + 1].source_start
           /\ err.output1 = MapEntry_apply(s[first], err.input)
           /\ err.output2 = MapEntry_apply(s[first + 1], err.input)
           /\ err.output1 # err.output2

\* C7's case: two adjacent pairs offend, the error is about the first.
C7_Witness ==
    /\ pc = "failed"
    /\ Len(given) = 3
    /\ Offending(sort_by_key(given), 1)
    /\ Offending(sort_by_key(given), 2)

IsSortedByKey(s) ==
    \A i \in 1..(Len(s) - 1) : s[i].source_start <= s[i + 1].source_start

Count(s, e) == Cardinality({i \in 1..Len(s) : s[i] = e})

\* Equal lengths and, for every element of a, equal counts: equal multisets.
IsPermutationOf(a, b) ==
    /\ Len(a) = Len(b)
    /\ \A i \in 1..Len(a) : Count(a, a[i]) = Count(b, a[i])

\* C8: from the moment Map::new returns a map, through every later call of
\* apply and apply_range, the map's entries are a permutation of the entries
\* given to new, sorted ascending by source_start.
C8_SortedEntries ==
    map.some =>
        /\ IsSortedByKey(map.entries)
        /\ IsPermutationOf(map.entries, given)

\* C8's case: the entries were given out of order, and an apply_range call
\* that went through the scan has returned.
C8_Witness ==
    /\ pc = "returned"
    /\ Len(out) >= 2
    /\ Len(map.entries) = 2
    /\ map.entries # given

---------------------------------------------------------------------------
(* Claims about the scalar functions *)

\* C9: Map::apply(value) returns value + delta of the first entry, in stored
\* order, whose source range contains value, and value itself when no entry
\* contains it.
C9_ApplyFirstMatch ==
    pc = "applied" =>
        LET es == map.entries
            hits == {i \in 1..Len(es) :
                        /\ es[i].source_start <= value
                        /\ value < es[i].source_start + es[i].range_length}
            first == CHOOSE i \in hits : \A j \in hits : i <= j
        IN result = IF hits = {}
                    THEN value
                    ELSE value + (es[first].destination_start - es[first].source_start)

\* C9's case: the first entry contains the value and moves it.
C9_Witness ==
    /\ pc = "applied"
    /\ Len(map.entries) = 2
    /\ MapEntry_contains(map.entries[1], value)
    /\ MapEntry_contains(map.entries[2], value)
    /\ result # value

\* C10: MapEntry::contains(value) is true iff source_start <= value <
\* source_start + range_length, and MapEntry::apply(value) is
\* value + (destination_start - source_start) when that holds and value
\* otherwise; the value source_start + range_length is passed through.
C10_EntryContainsApply ==
    LET e == given[1]
        inside == e.source_start <= value /\ value < e.source_start + e.range_length
    IN /\ pc = "entry_contains" => result = inside
       /\ pc = "entry_applied" =>
             /\ inside => result = value + (e.destination_start - e.source_start)
             /\ ~inside => result = value
             /\ value = e.source_start + e.range_length => result = value

\* C10's case: apply was called with the end of an entry that moves values.
C10_Witness ==
    /\ pc = "entry_applied"
    /\ given[1].range_length > 0
    /\ given[1].destination_start # given[1].source_start
    /\ value = given[1].source_start + given[1].range_length
    /\ result = value

---------------------------------------------------------------------------
(* Claims about the entries a Map holds and about calls that miss them *)

\* C11 (as claimed): every entry of a Map that Map::new returned has a
\* range_length greater than zero.
C11_PositiveLengths ==
    pc = "ready" =>
        \A i \in 1..Len(map.entries) : map.entries[i].range_length > 0

\* The source range of entry e and the range r have a value in common.
Overlaps_range(e, r) ==
    \E v \in r.start..(SeedRange_end(r) - 1) : MapEntry_contains(e, v)

\* No entry of the map has a value in common with r.
OutsideAll(m, r) ==
    \A i \in 1..Len(m.entries) : ~Overlaps_range(m.entries[i], r)

\* C12 (as claimed): Map::apply returns unchanged a value that no entry
\* contains, and Map::apply_range returns the one-element list holding R
\* unchanged when R overlaps no entry's source range.
C12_Passthrough ==
    /\ pc = "applied" =>
          ((\A i \in 1..Len(map.entries) : ~MapEntry_contains(map.entries[i], value))
              => result = value)
    /\ pc = "returned" => (OutsideAll(map, arg) => out = <<arg>>)

\* The range r lies within the source range of entry e.
FitsWithin(e, r) ==
    e.source_start <= r.start /\ SeedRange_end(r) <= source_end(e)

\* C13 (as claimed): Map::apply_range returns exactly one fragment when R
\* fits within the source range of one entry, and when R lies outside the
\* source range of every entry.
C13_SingleFragment ==
    pc = "returned" =>
        (((\E i \in 1..Len(map.entries) : FitsWithin(map.entries[i], arg))
            \/ OutsideAll(map, arg))
          => Len(out) = 1)

\* C14 (as claimed): a call on a Map that Map::new returned never panics,
\* and each split_at whose result apply_range unwraps is called with a
\* point that the remaining range contains.
C14_Totality ==
    /\ pc # "panic"
    /\ (pc = "loop" /\ eidx < Len(map.entries)
          /\ ~(source_end(entry) <= range.start)
          /\ ~(entry.source_start >= SeedRange_end(range))
          /\ entry.source_start > range.start)
        => SeedRange_contains(range, entry.source_start)
    /\ (pc = "assert" /\ source_end(entry) < SeedRange_end(range))
        => SeedRange_contains(range, source_end(entry))

\* C19: no call changes the Map that Map::new returned (its name and its
\* entries stay as they were), and what a call returns is a function of the
\* Map and the argument alone, whatever calls came before it.
C19_Immutable ==
    /\ [][pc # "new" => map' = map]_vars
    /\ [](pc = "applied" => result = Map_apply(map, value))
    /\ [](pc = "returned" =>
            /\ ~Map_apply_range(map, arg).panic
            /\ out = Map_apply_range(map, arg).out)

\* C19's case: a call whose scan stepped over an entry and cut the range has
\* returned, and the map is still the one Map::new built.
C19_Witness ==
    /\ pc = "returned"
    /\ eidx >= 1
    /\ Len(out) >= 2
    /\ map = Map_new(name, given)[1]

---------------------------------------------------------------------------
(* Claims about part1 and part2 *)

\* The seed v after the first k maps of part1.
RECURSIVE through(_, _)
through(v, k) == IF k = 0 THEN v ELSE Map_apply(maps[k], through(v, k - 1))

\* C15: part1 reports the least, over the seeds, of the seed put through
\* apply of every map in the order of the maps, each seed on its own.
C15_ScalarMode ==
    pc = "part1_ok" =>
        /\ \E i \in 1..Len(seeds) : result = through(seeds[i], Len(maps))
        /\ \A i \in 1..Len(seeds) : result <= through(seeds[i], Len(maps))

\* C15's case: two seeds, two maps whose order matters for the first seed,
\* and the reported location is not a seed's own value.
C15_Witness ==
    /\ pc = "part1_ok"
    /\ Len(seeds) = 2
    /\ Len(maps) = 2
    /\ Map_apply(maps[2], Map_apply(maps[1], seeds[1]))
          # Map_apply(maps[1], Map_apply(maps[2], seeds[1]))
    /\ \A i \in 1..Len(seeds) : result # seeds[i]

\* list begins with the fragments of rs[1] under the map m, goes on with
\* those of rs[2], and so on, and ends with those of the last interval.
RECURSIVE IsConcatenation(_, _, _)
IsConcatenation(list, m, rs) ==
    IF rs = <<>> THEN list = <<>>
    ELSE LET chunk == Map_apply_range(m, rs[1]).out
         IN /\ Len(list) >= Len(chunk)
            /\ SubSeq(list, 1, Len(chunk)) = chunk
            /\ IsConcatenation(SubSeq(list, Len(chunk) + 1, Len(list)), m, Tail(rs))

\* C16: each turn of part2's loop replaces the intervals held by the
\* concatenation, in order, of apply_range of the turn's map on each of
\* them; and the number part2 reports is the least start in the last list.
C16_RangeMode ==
    /\ [][stages_taken' = stages_taken + 1 => IsConcatenation(ranges', stage', ranges)]_vars
    /\ [](pc = "part2_ok" =>
            /\ \E i \in 1..Len(ranges) : result = ranges[i].start
            /\ \A i \in 1..Len(ranges) : result <= ranges[i].start)

\* C16's case: two maps were taken, intervals were cut on the way, and the
\* least start is not the first interval's.
C16_Witness ==
    /\ pc = "part2_ok"
    /\ stages_taken = 2
    /\ Len(ranges) >= 4
    /\ result # ranges[1].start

\* C17 (as claimed): after every turn of part2's loop the lengths of the
\* intervals held sum to what the lengths of the initial intervals summed to.
C17_CoveragePreserved ==
    pc \in {"part2", "part2_ok", "part2_err"} => SumLengths(ranges) = initial_length

\* C18: part1 reports NoSolution exactly when there is no seed, part2 exactly
\* when no interval is left after the last map; otherwise each reports a
\* number and no error.
C18_NoSolution ==
    /\ pc = "part1_err" => (seeds = <<>> /\ err = NoSolution)
    /\ pc = "part1_ok" => (seeds # <<>> /\ err = NoError /\ result \in Int)
    /\ pc = "part2_err" => (ranges = <<>> /\ err = NoSolution)
    /\ pc = "part2_ok" => (ranges # <<>> /\ err = NoError /\ result \in Int)

\* C18's case: part2 was given intervals, a map was taken, none is left and
\* NoSolution is reported.
C18_Witness ==
    /\ pc = "part2_err"
    /\ stages_taken >= 1
    /\ initial_length # 0
    /\ err = NoSolution

\* C20: part1 reports the same whichever order the seeds' locations are
\* combined in, and part2 reports what a port reports that holds the
\* intervals as a bag, hands each to a worker in any order and puts the
\* fragments back in any order.
C20_OrderIndependence ==
    /\ pc \in {"part1_ok", "part1_err"} =>
          \A p \in Perms(seeds) :
              LET lowest == ok_or(Iterator_min(locations(p, maps)), NoSolution)
              IN /\ lowest.ok = (pc = "part1_ok")
                 /\ lowest.ok => lowest.value = result
    /\ pc = "part2_ok" =>
          /\ \E r \in BagToSet(unordered) : result = r.start
          /\ \A r \in BagToSet(unordered) : result <= r.start
    /\ pc = "part2_err" => BagToSet(unordered) = {}

\* C20's case: two maps were taken and the least start is that of the last
\* interval of the list, not of the first.
C20_Witness ==
    /\ pc = "part2_ok"
    /\ stages_taken = 2
    /\ Len(ranges) >= 3
    /\ result = ranges[Len(ranges)].start
    /\ result < ranges[1].start

---------------------------------------------------------------------------
(* Claims about SeedRange::split_at *)

\* C21: when split_at(p) returns a pair, the first part starts where the
\* range starts, the second starts at p, the first ends where the second
\* starts, and the two lengths sum to the length of the range.
C21_SplitPair ==
    (pc = "range_split" /\ out # None) =>
        /\ out[1].start = arg.start
        /\ out[2].start = value
        /\ out[1].start + out[1].length = out[2].start
        /\ out[1].length + out[2].length = arg.length

\* C21's case: a split strictly inside a range, both parts non-empty.
C21_Witness ==
    /\ pc = "range_split"
    /\ out # None
    /\ out[1].length >= 1
    /\ out[2].length >= 2

\* C22 (as claimed): split_at(p) returns None iff p is not in
\* [start, start + length); a split at p = start is accepted with a first
\* part of length 0; a split at p = start + length is rejected.
C22_SplitNone ==
    pc = "range_split" =>
        /\ (out = None) <=> ~(arg.start <= value /\ value < arg.start + arg.length)
        /\ value = arg.start => (out # None /\ out[1].length = 0)
        /\ value = arg.start + arg.length => out = None

\* C22 (amended): split_at(p) returns None iff p is not in
\* [start, start + length); for a range of positive length a split at
\* p = start is accepted with a first part of length 0; a split at
\* p = start + length is rejected.
C22_SplitNonePositive ==
    pc = "range_split" =>
        /\ (out = None) <=> ~(arg.start <= value /\ value < arg.start + arg.length)
        /\ (arg.length > 0 /\ value = arg.start) => (out # None /\ out[1].length = 0)
        /\ value = arg.start + arg.length => out = None

\* C22's case: a split at the start of a range of positive length was
\* accepted, its first part empty.
C22_Witness ==
    /\ pc = "range_split"
    /\ arg.length > 0
    /\ value = arg.start
    /\ out # None
    /\ out[1].length = 0

---------------------------------------------------------------------------
(* Claims about the scan of Map::apply_range *)

\* No value lies in the source ranges of two different entries of m.
DisjointEntries(m) ==
    \A i, j \in 1..Len(m.entries) :
        i # j => \A v \in m.entries[i].source_start..(source_end(m.entries[i]) - 1) :
                     ~MapEntry_contains(m.entries[j], v)

\* The entry boundaries strictly inside r.
Cuts(m, r) ==
    {b \in {m.entries[i].source_start : i \in 1..Len(m.entries)}
             \cup {source_end(m.entries[i]) : i \in 1..Len(m.entries)} :
        r.start < b /\ b < SeedRange_end(r)}

\* The piece [a, b) of the input: shifted by the delta of the entry that
\* covers it, unchanged when none does.
Piece(m, a, b) ==
    LET hits == {i \in 1..Len(m.entries) : MapEntry_contains(m.entries[i], a)}
    IN IF hits = {} THEN [start |-> a, length |-> b - a]
       ELSE [start |-> a + delta(m.entries[CHOOSE i \in hits : TRUE]), length |-> b - a]

\* The pieces from a up to e, cut at the points of cuts, in ascending order.
RECURSIVE PiecesFrom(_, _, _, _)
PiecesFrom(m, a, cuts, e) ==
    IF cuts = {} THEN <<Piece(m, a, e)>>
    ELSE LET c == CHOOSE x \in cuts : \A y \in cuts : x <= y
         IN <<Piece(m, a, c)>> \o PiecesFrom(m, c, cuts \ {c}, e)

Reference(m, r) == PiecesFrom(m, r.start, Cuts(m, r), SeedRange_end(r))

\* C23 (as claimed): for a Map whose entries have pairwise disjoint source
\* ranges, apply_range(R) returns R cut at every entry boundary strictly
\* inside it, the pieces in ascending order of position, each shifted by the
\* delta of the entry covering it or left unchanged when none covers it.
C23_ReferenceList ==
    (pc = "returned" /\ DisjointEntries(map)) => out = Reference(map, arg)

\* C24: when the scan stops at an entry that starts at or after the end of
\* the remaining range, no entry of the map, later or earlier, contains a
\* value of the remaining range, which is then pushed unmodified.  (The scan
\* has stopped at an entry with something left exactly when it is at "tail"
\* with eidx inside the list and a remaining length above 0: the covering
\* case leaves the length 0.)
C24_OvershotTail ==
    (pc = "tail" /\ eidx < Len(map.entries) /\ range.length > 0) =>
        /\ entry.source_start >= SeedRange_end(range)
        /\ \A i \in 1..Len(map.entries) : ~Overlaps_range(map.entries[i], range)

\* C24's case: the scan snipped or stepped over an entry, then stopped at a
\* later one with a tail left.
C24_Witness ==
    /\ pc = "tail"
    /\ eidx >= 1
    /\ eidx < Len(map.entries)
    /\ range.length > 0
    /\ Len(out) >= 1

\* What is left of the scan: two for every entry not yet passed, one more at
\* the head of the loop than after the optional left split.
ScanVariant ==
    2 * (Len(map.entries) - eidx) + (IF pc = "loop" THEN 1 ELSE 0)

\* C25: apply_range terminates.  Every step that stays in the scan loop
\* brings it nearer to its end (a pass that comes back to the head has
\* advanced eidx by one) and eidx never passes the number of entries, so the
\* head is reached at most that number plus one times; the call is never
\* stuck before its end; and a call that returns has pushed at most twice
\* the number of entries plus one fragments.
C25_Terminates ==
    /\ [][(pc \in {"loop", "assert"} /\ pc' \in {"loop", "assert"})
            => ScanVariant' < ScanVariant]_vars
    /\ [][(pc \in {"loop", "assert"} /\ pc' = "loop") => eidx' = eidx + 1]_vars
    /\ [](pc \in {"loop", "assert"} => (ScanVariant >= 0 /\ eidx <= Len(map.entries)))
    /\ [](pc \in {"loop", "assert", "tail"} => ENABLED Next)
    /\ [](pc = "returned" => Len(out) <= 2 * Len(map.entries) + 1)

\* C25's case: a call over two entries has returned the most fragments it
\* can, five.
C25_Witness ==
    /\ pc = "returned"
    /\ Len(map.entries) = 2
    /\ eidx = 2
    /\ Len(out) = 5

\* C27: when the input range and every entry of the map have a length above
\* zero, every fragment apply_range returns has a length above zero, and its
\* start is what Map::apply gives for some value of the input range.
C27_PositiveFragments ==
    (/\ pc = "returned"
     /\ arg.length > 0
     /\ \A i \in 1..Len(map.entries) : map.entries[i].range_length > 0)
    => \A k \in 1..Len(out) :
          /\ out[k].length > 0
          /\ \E v \in arg.start..(SeedRange_end(arg) - 1) : Map_apply(map, v) = out[k].start

\* C27's case: a range cut into three or more fragments by two entries of
\* positive length.
C27_Witness ==
    /\ pc = "returned"
    /\ arg.length > 0
    /\ Len(map.entries) = 2
    /\ \A i \in 1..Len(map.entries) : map.entries[i].range_length > 0
    /\ Len(out) >= 3

\* C28: while apply_range scans, the remaining range is a suffix of the
\* input range: it ends where the input ends, it starts no earlier than the
\* input and never moves back, and the lengths pushed so far plus the
\* remaining length make the input length.  When the scan is left the sum
\* still holds, the end being given up only where the length is set to 0.
C28_Suffix ==
    /\ [](pc \in {"loop", "assert"} =>
            /\ SeedRange_end(range) = SeedRange_end(arg)
            /\ range.start >= arg.start
            /\ SumLengths(out) + range.length = arg.length)
    /\ [](pc = "tail" =>
            /\ SumLengths(out) + range.length = arg.length
            /\ range.start >= arg.start
            /\ range.length = 0 \/ SeedRange_end(range) = SeedRange_end(arg))
    /\ [][(pc \in {"loop", "assert"} /\ pc' \in {"loop", "assert", "tail"})
            => range'.start >= range.start]_vars

\* C28's case: the scan is back at the head of its loop with fragments
\* pushed, the start moved on, and something left.
C28_Witness ==
    /\ pc = "loop"
    /\ eidx >= 1
    /\ Len(out) >= 2
    /\ range.start > arg.start
    /\ range.length > 0

\* C29: where apply_range asserts it (after the optional left split), the
\* current entry starts at or before the remaining range.
C29_Assertion ==
    pc = "assert" => entry.source_start <= range.start

\* C29's case: the assertion is reached after a left split, the remaining
\* range starting where the entry starts.
C29_Witness ==
    /\ pc = "assert"
    /\ Len(out) >= 1
    /\ range.start > arg.start
    /\ entry.source_start = range.start

----------------------------------------------------------------------------
\* Claims about part1 and part2 together

\* C26: for maps that Map::new accepted and a non-empty list of seed ranges
\* of positive length, what part2 reports (the least start of the final
\* ranges) is the least of the values the seed ranges contain, each folded
\* through all the maps as part1 folds a seed.
C26_ModesAgree ==
    pc = "part2_ok" => <<result>> = Iterator_min(locations(seeds, maps))

\* The same, for maps whose entries all have a length above zero.
C26_ModesAgreePositive ==
    (/\ pc = "part2_ok"
     /\ \A i \in 1..Len(maps) : \A j \in 1..Len(maps[i].entries) :
            maps[i].entries[j].range_length > 0) =>
        <<result>> = Iterator_min(locations(seeds, maps))

====
